---------------------------- MODULE Spec2Model ----------------------------
(***************************************************************************)
(* Model of extract-glb.ts: the GLB container parser (parseGLB), the       *)
(* accessor decoder (extractAccessorData) and the walk over a primitive's  *)
(* accessors (extractBinaryData).                                          *)
(*                                                                         *)
(* A Buffer is a sequence of bytes (0..255), 1-indexed here and 0-indexed  *)
(* in the source: byte i of the source is buf[i + 1].                      *)
(***************************************************************************)
EXTENDS Integers, Sequences, FiniteSets, TLC

VARIABLES
    pc,                 \* position in the function being run
    glbBuffer,          \* parseGLB: its argument
    totalLength,        \* parseGLB: const totalLength
    offset,             \* parseGLB: let offset
    jsonChunkLength,    \* parseGLB: const jsonChunkLength
    jsonChunkType,      \* parseGLB: const jsonChunkType
    jsonData,           \* parseGLB: the range <<start, end>> of jsonData in glbBuffer
    binaryChunkLength,  \* parseGLB: const binaryChunkLength
    binaryChunkType,    \* parseGLB: const binaryChunkType
    binaryRange,        \* parseGLB: the range <<start, end>> of binaryBuffer, or Null
    thrown,             \* the error thrown, or NoError
    binaryBuffer,       \* extractAccessorData, extractBinaryData: the binary buffer
    accessor,           \* extractAccessorData: its argument
    bufferView,         \* extractAccessorData: its argument
    result,             \* extractAccessorData: what it returned
    gltfData,           \* extractBinaryData: the parsed document (accessors, bufferViews)
    primitive,          \* extractBinaryData: the primitive walked (attributes, indices)
    done,               \* extractBinaryData: how many attributes have been extracted
    report              \* extractBinaryData: result.attributes (in order) and result.indices

glbVars == <<glbBuffer, totalLength, offset, jsonChunkLength, jsonChunkType,
             jsonData, binaryChunkLength, binaryChunkType, binaryRange>>

accVars == <<accessor, bufferView, result>>

runVars == <<gltfData, primitive, done, report>>

vars == <<pc, thrown, glbVars, binaryBuffer, accVars, runVars>>

\* A number-valued property or local that is absent or not assigned yet holds
\* Undefined; NaN is the number NaN.  Every number of the model is >= 0
\* otherwise.  null, for a range, is the empty tuple.
Undefined == -1
NaN == -2
Null == <<>>
NoError == "none"

\* The value of result before any call of extractAccessorData.
NoCall == [returned |-> FALSE, error |-> "no call", read |-> Null, value |-> Null]

Min(a, b) == IF a < b THEN a ELSE b
Max(a, b) == IF a > b THEN a ELSE b

(***************************************************************************)
(* Buffer primitives of the runtime, as the source uses them.              *)
(***************************************************************************)

\* ToIntegerOrInfinity of an index argument: NaN and undefined become 0.
ToIndex(x) == IF x = NaN \/ x = Undefined THEN 0 ELSE x

\* buf.subarray(start, end): both ends are clamped to [0, length]; the range
\* is empty when end <= start.  Returns the range <<s, e>> of source indices.
SubarrayRange(len, start, end) ==
    LET s == Min(Max(ToIndex(start), 0), len)
        e == Min(Max(ToIndex(end), 0), len)
    IN  <<s, Max(s, e)>>

\* The bytes of a range of a buffer.
BytesOf(buf, range) == SubSeq(buf, range[1] + 1, range[2])

\* buf.readUInt32LE(off) reads 4 bytes; off must satisfy 0 <= off <= length - 4,
\* otherwise the runtime throws a RangeError.
CanReadUInt32(buf, off) == off >= 0 /\ off + 4 <= Len(buf)

readUInt32LE(buf, off) ==
    buf[off + 1] + 256 * buf[off + 2] + 65536 * buf[off + 3] + 16777216 * buf[off + 4]

\* buf.toString('ascii'): decoding unsets the highest bit of every byte.
ToStringAscii(bytes) == [i \in 1..Len(bytes) |-> bytes[i] % 128]

\* The string 'glTF' as character codes.
MAGIC == <<103, 108, 84, 70>>

JSON_CHUNK == 1313821514    \* 0x4e4f534a
BIN_CHUNK == 5130562        \* 0x004e4942

(***************************************************************************)
(* JSON.parse, for texts over the alphabet the inputs are drawn from: '{', *)
(* '}', '1' and white space.  Such a text is a JSON value exactly when,    *)
(* white space around it removed, it is a number 1...1 or an object '{'    *)
(* white space '}'.                                                        *)
(***************************************************************************)
WhiteSpace == {32, 9, 10, 13}

RECURSIVE TrimLeft(_)
TrimLeft(s) == IF s # <<>> /\ Head(s) \in WhiteSpace THEN TrimLeft(Tail(s)) ELSE s

RECURSIVE TrimRight(_)
TrimRight(s) ==
    IF s # <<>> /\ s[Len(s)] \in WhiteSpace THEN TrimRight(SubSeq(s, 1, Len(s) - 1)) ELSE s

JsonParses(text) ==
    LET t == TrimRight(TrimLeft(text))
    IN  \/ t # <<>> /\ \A i \in 1..Len(t) : t[i] = 49
        \/ /\ Len(t) >= 2
           /\ t[1] = 123
           /\ t[Len(t)] = 125
           /\ \A i \in 2..(Len(t) - 1) : t[i] \in WhiteSpace

(***************************************************************************)
(* Inputs of parseGLB: a container laid out as the parser reads it, with   *)
(* any field values, cut at any length or followed by extra bytes.         *)
(***************************************************************************)
MaxJsonLen == 2
MaxBinLen == 2
MaxPad == 1

U32LE(n) == <<n % 256, (n \div 256) % 256, (n \div 65536) % 256, (n \div 16777216) % 256>>

JsonAlphabet == {123, 125, 49}

SeqsUpTo(S, n) == UNION {[1..k -> S] : k \in 0..n}

Magics == {MAGIC, <<231, 108, 84, 70>>, <<103, 108, 84, 71>>}

ChunkTypes == {JSON_CHUNK, BIN_CHUNK}

Container(magic, total, text, tag1, bin, tag2) ==
    magic \o U32LE(2) \o U32LE(total)
          \o U32LE(Len(text)) \o U32LE(tag1) \o text
          \o U32LE(Len(bin)) \o U32LE(tag2) \o bin

\* Declared total lengths tried for a container whose chunks hold nj and nb
\* bytes: none, the first chunk only, both chunks, and one off each.
Totals(nj, nb) == {0, 20 + nj, 21 + nj, 27 + nj + nb, 28 + nj + nb, 29 + nj + nb}

BinBytes(n) == [i \in 1..n |-> i]

Padding(n) == [i \in 1..n |-> 0]

\* The first n bytes of the container, or all of it and n - Len(full) more.
CutOrPad(full, n) ==
    IF n <= Len(full) THEN SubSeq(full, 1, n) ELSE full \o Padding(n - Len(full))

(***************************************************************************)
(* parseGLB, one action per statement group.                               *)
(***************************************************************************)
InitGLB ==
    /\ \E magic \in Magics, text \in SeqsUpTo(JsonAlphabet, MaxJsonLen),
          tag1 \in ChunkTypes, nbin \in 0..MaxBinLen, tag2 \in ChunkTypes :
          \E total \in Totals(Len(text), nbin) :
             LET full == Container(magic, total, text, tag1, BinBytes(nbin), tag2)
             IN  \E n \in 0..(Len(full) + MaxPad) : glbBuffer = CutOrPad(full, n)
    /\ pc = "magic"
    /\ totalLength = Undefined
    /\ offset = Undefined
    /\ jsonChunkLength = Undefined
    /\ jsonChunkType = Undefined
    /\ jsonData = Null
    /\ binaryChunkLength = Undefined
    /\ binaryChunkType = Undefined
    /\ binaryRange = Null
    /\ thrown = NoError
    /\ binaryBuffer = <<>>
    /\ accessor = Null /\ bufferView = Null /\ result = NoCall
    /\ gltfData = Null /\ primitive = Null /\ done = 0 /\ report = Null

\* parseGLB touches nothing of the decoder's or the walk's state.
ParseFrame == UNCHANGED <<binaryBuffer, accVars, runVars>>

Throw(error) ==
    /\ pc' = "thrown"
    /\ thrown' = error

\* const magic = glbBuffer.subarray(0, 4).toString('ascii'); if (magic !== 'glTF') throw
CheckMagic ==
    /\ pc = "magic"
    /\ ParseFrame
    /\ LET magic == ToStringAscii(BytesOf(glbBuffer, SubarrayRange(Len(glbBuffer), 0, 4)))
       IN  IF magic # MAGIC
           THEN Throw("InvalidSignature")
           ELSE pc' = "totalLength" /\ thrown' = thrown
    /\ UNCHANGED glbVars

\* const totalLength = glbBuffer.readUInt32LE(8); let offset = 12
ReadTotalLength ==
    /\ pc = "totalLength"
    /\ ParseFrame
    /\ IF ~CanReadUInt32(glbBuffer, 8)
       THEN Throw("RangeError") /\ UNCHANGED <<totalLength, offset>>
       ELSE /\ totalLength' = readUInt32LE(glbBuffer, 8)
            /\ offset' = 12
            /\ pc' = "jsonHeader"
            /\ thrown' = thrown
    /\ UNCHANGED <<glbBuffer, jsonChunkLength, jsonChunkType, jsonData,
                   binaryChunkLength, binaryChunkType, binaryRange>>

\* const jsonChunkLength = ...readUInt32LE(offset); const jsonChunkType = ...(offset + 4)
\* if (jsonChunkType !== 0x4e4f534a) throw
ReadJsonHeader ==
    /\ pc = "jsonHeader"
    /\ ParseFrame
    /\ IF ~CanReadUInt32(glbBuffer, offset)
       THEN Throw("RangeError") /\ UNCHANGED <<jsonChunkLength, jsonChunkType>>
       ELSE /\ jsonChunkLength' = readUInt32LE(glbBuffer, offset)
            /\ IF ~CanReadUInt32(glbBuffer, offset + 4)
               THEN Throw("RangeError") /\ UNCHANGED jsonChunkType
               ELSE /\ jsonChunkType' = readUInt32LE(glbBuffer, offset + 4)
                    /\ IF jsonChunkType' # JSON_CHUNK
                       THEN Throw("MissingMetadataChunk")
                       ELSE pc' = "jsonData" /\ thrown' = thrown
    /\ UNCHANGED <<glbBuffer, totalLength, offset, jsonData,
                   binaryChunkLength, binaryChunkType, binaryRange>>

\* const jsonData = glbBuffer.subarray(offset + 8, offset + 8 + jsonChunkLength)
\* const gltfData = JSON.parse(jsonData.toString('utf8')); offset += 8 + jsonChunkLength
\* let binaryBuffer = null
ReadJsonData ==
    /\ pc = "jsonData"
    /\ ParseFrame
    /\ jsonData' = SubarrayRange(Len(glbBuffer), offset + 8, offset + 8 + jsonChunkLength)
    /\ IF ~JsonParses(BytesOf(glbBuffer, jsonData'))
       THEN Throw("SyntaxError") /\ UNCHANGED <<offset, binaryRange>>
       ELSE /\ offset' = offset + 8 + jsonChunkLength
            /\ binaryRange' = Null
            /\ pc' = "binaryChunk"
            /\ thrown' = thrown
    /\ UNCHANGED <<glbBuffer, totalLength, jsonChunkLength, jsonChunkType,
                   binaryChunkLength, binaryChunkType>>

\* A second header read with the cursor at the total length too.
ReadBinaryHeader_AtTotal ==
    /\ pc = "binaryChunk"
    /\ ParseFrame
    /\ offset <= totalLength
    /\ IF ~CanReadUInt32(glbBuffer, offset)
       THEN Throw("RangeError") /\ UNCHANGED <<binaryChunkLength, binaryChunkType>>
       ELSE /\ binaryChunkLength' = readUInt32LE(glbBuffer, offset)
            /\ IF ~CanReadUInt32(glbBuffer, offset + 4)
               THEN Throw("RangeError") /\ UNCHANGED binaryChunkType
               ELSE /\ binaryChunkType' = readUInt32LE(glbBuffer, offset + 4)
                    /\ pc' = "binaryData"
                    /\ thrown' = thrown
    /\ UNCHANGED <<glbBuffer, totalLength, offset, jsonChunkLength, jsonChunkType,
                   jsonData, binaryRange>>

\* if (offset < totalLength) { binaryChunkLength = ...; binaryChunkType = ... }
ReadBinaryHeader ==
    /\ pc = "binaryChunk"
    /\ ParseFrame
    /\ offset < totalLength
    /\ IF ~CanReadUInt32(glbBuffer, offset)
       THEN Throw("RangeError") /\ UNCHANGED <<binaryChunkLength, binaryChunkType>>
       ELSE /\ binaryChunkLength' = readUInt32LE(glbBuffer, offset)
            /\ IF ~CanReadUInt32(glbBuffer, offset + 4)
               THEN Throw("RangeError") /\ UNCHANGED binaryChunkType
               ELSE /\ binaryChunkType' = readUInt32LE(glbBuffer, offset + 4)
                    /\ pc' = "binaryData"
                    /\ thrown' = thrown
    /\ UNCHANGED <<glbBuffer, totalLength, offset, jsonChunkLength, jsonChunkType,
                   jsonData, binaryRange>>

\* the if (offset < totalLength) not taken
NoBinaryChunk ==
    /\ pc = "binaryChunk"
    /\ ParseFrame
    /\ ~(offset < totalLength)
    /\ pc' = "returned"
    /\ UNCHANGED <<glbVars, thrown>>

\* A binary range that starts at the chunk header, not after it.
ReadBinaryData_KeepsHeader ==
    /\ pc = "binaryData"
    /\ ParseFrame
    /\ binaryRange' =
          IF binaryChunkType = BIN_CHUNK
          THEN SubarrayRange(Len(glbBuffer), offset, offset + binaryChunkLength)
          ELSE binaryRange
    /\ pc' = "returned"
    /\ UNCHANGED <<glbBuffer, totalLength, offset, jsonChunkLength, jsonChunkType,
                   jsonData, binaryChunkLength, binaryChunkType, thrown>>

\* if (binaryChunkType === 0x004e4942) binaryBuffer = glbBuffer.subarray(...)
ReadBinaryData ==
    /\ pc = "binaryData"
    /\ ParseFrame
    /\ binaryRange' =
          IF binaryChunkType = BIN_CHUNK
          THEN SubarrayRange(Len(glbBuffer), offset + 8, offset + 8 + binaryChunkLength)
          ELSE binaryRange
    /\ pc' = "returned"
    /\ UNCHANGED <<glbBuffer, totalLength, offset, jsonChunkLength, jsonChunkType,
                   jsonData, binaryChunkLength, binaryChunkType, thrown>>

NextGLB ==
    \/ CheckMagic
    \/ ReadTotalLength
    \/ ReadJsonHeader
    \/ ReadJsonData
    \/ ReadBinaryHeader
    \/ NoBinaryChunk
    \/ ReadBinaryData

SpecGLB == InitGLB /\ [][NextGLB]_vars

(***************************************************************************)
(* extractAccessorData.                                                    *)
(*                                                                         *)
(* A decoded number is a tuple of integers: <<v>> for the 8 and 16 bit     *)
(* integer types, <<high 16 bits, low 16 bits>> for Uint32 (the value is   *)
(* 65536 * high + low) and <<sign, exponent, fraction>> for Float32, every *)
(* NaN being the one number NaNValue.  An element of groupedValues is      *)
(* [array |-> FALSE, items |-> <<number>>] for a bare number and           *)
(* [array |-> TRUE, items |-> numbers] for an array of numbers.            *)
(***************************************************************************)
COMPONENT_TYPES ==
    (5120 :> [name |-> "BYTE", size |-> 1, array |-> "Int8Array"]) @@
    (5121 :> [name |-> "UNSIGNED_BYTE", size |-> 1, array |-> "Uint8Array"]) @@
    (5122 :> [name |-> "SHORT", size |-> 2, array |-> "Int16Array"]) @@
    (5123 :> [name |-> "UNSIGNED_SHORT", size |-> 2, array |-> "Uint16Array"]) @@
    (5125 :> [name |-> "UNSIGNED_INT", size |-> 4, array |-> "Uint32Array"]) @@
    (5126 :> [name |-> "FLOAT", size |-> 4, array |-> "Float32Array"])

TYPE_SIZES ==
    [SCALAR |-> 1, VEC2 |-> 2, VEC3 |-> 3, VEC4 |-> 4, MAT2 |-> 4, MAT3 |-> 9, MAT4 |-> 16]

TRUNCATE_LIMIT == 20

\* TYPE_SIZES[accessor.type]: undefined for a key the table does not hold.
TypeSizeOf(type) == IF type \in DOMAIN TYPE_SIZES THEN TYPE_SIZES[type] ELSE Undefined

\* x || 0 for an optional byte offset.
OrZero(x) == IF x = Undefined \/ x = NaN THEN 0 ELSE x

\* Products and sums of numbers, NaN when an operand is undefined or NaN.
Times(a, b) == IF a \in {Undefined, NaN} \/ b \in {Undefined, NaN} THEN NaN ELSE a * b
Plus(a, b) == IF a \in {Undefined, NaN} \/ b \in {Undefined, NaN} THEN NaN ELSE a + b

NaNValue == <<0, 255, 1>>

\* One element of a typed array over little-endian bytes b (Len(b) = the size).
DecodeElement(array, b) ==
    CASE array = "Int8Array" -> <<IF b[1] >= 128 THEN b[1] - 256 ELSE b[1]>>
      [] array = "Uint8Array" -> <<b[1]>>
      [] array = "Int16Array" ->
            LET v == b[1] + 256 * b[2] IN <<IF v >= 32768 THEN v - 65536 ELSE v>>
      [] array = "Uint16Array" -> <<b[1] + 256 * b[2]>>
      [] array = "Uint32Array" -> <<b[3] + 256 * b[4], b[1] + 256 * b[2]>>
      [] array = "Float32Array" ->
            LET sign == b[4] \div 128
                exponent == 2 * (b[4] % 128) + b[3] \div 128
                fraction == 65536 * (b[3] % 128) + 256 * b[2] + b[1]
            IN  IF exponent = 255 /\ fraction # 0 THEN NaNValue
                ELSE <<sign, exponent, fraction>>

\* Array.from(new componentType.array(arrayBuffer)), for a byte length that is a
\* multiple of the element size.
TypedArrayValues(componentType, bytes) ==
    [k \in 1..(Len(bytes) \div componentType.size) |->
        DecodeElement(componentType.array,
                      SubSeq(bytes, (k - 1) * componentType.size + 1, k * componentType.size))]

\* A grouping loop without the special case for typeSize === 1: a scalar becomes
\* an array of one number.
GroupValues_NoScalarCase(values, typeSize) ==
    IF typeSize = Undefined
    THEN IF values = <<>> THEN <<>> ELSE <<[array |-> TRUE, items |-> <<>>]>>
    ELSE [g \in 1..((Len(values) + typeSize - 1) \div typeSize) |->
            [array |-> TRUE,
             items |-> SubSeq(values, (g - 1) * typeSize + 1,
                              Min(g * typeSize, Len(values)))]]

\* The loop for (i = 0; i < values.length; i += typeSize): with typeSize undefined
\* i becomes NaN after the first pass, which pushes values.slice(0, NaN) = [].
GroupValues(values, typeSize) ==
    IF typeSize = Undefined
    THEN IF values = <<>> THEN <<>> ELSE <<[array |-> TRUE, items |-> <<>>]>>
    ELSE [g \in 1..((Len(values) + typeSize - 1) \div typeSize) |->
            IF typeSize = 1
            THEN [array |-> FALSE, items |-> <<values[g]>>]
            ELSE [array |-> TRUE,
                  items |-> SubSeq(values, (g - 1) * typeSize + 1,
                                   Min(g * typeSize, Len(values)))]]

\* groupedValues.slice(0, TRUNCATE_LIMIT) when longer than the limit
FinalValues(groupedValues) ==
    IF Len(groupedValues) > TRUNCATE_LIMIT
    THEN SubSeq(groupedValues, 1, TRUNCATE_LIMIT)
    ELSE groupedValues

\* A byte offset that leaves out the accessor's own.
ByteOffsetOf_ViewOnly(acc, view) == OrZero(view.byteOffset)

\* (bufferView.byteOffset || 0) + (accessor.byteOffset || 0)
ByteOffsetOf(acc, view) == OrZero(view.byteOffset) + OrZero(acc.byteOffset)

ByteLengthOf(acc, componentType) ==
    Times(acc.count, Times(componentType.size, TypeSizeOf(acc.type)))

\* A result object that truncates from the limit on, not past it.
ResultObject_TruncatesAtLimit(acc, componentType, groupedValues) ==
    LET echoed == [type |-> acc.type, componentType |-> componentType.name,
                   count |-> acc.count, min |-> acc.min, max |-> acc.max]
    IN  IF Len(groupedValues) >= TRUNCATE_LIMIT
        THEN echoed @@ [truncatedValues |-> SubSeq(groupedValues, 1, TRUNCATE_LIMIT)]
        ELSE echoed @@ [values |-> groupedValues]

\* The result object: the echoed fields and values or truncatedValues.
ResultObject(acc, componentType, groupedValues) ==
    LET echoed == [type |-> acc.type, componentType |-> componentType.name,
                   count |-> acc.count, min |-> acc.min, max |-> acc.max]
    IN  IF Len(groupedValues) > TRUNCATE_LIMIT
        THEN echoed @@ [truncatedValues |-> FinalValues(groupedValues)]
        ELSE echoed @@ [values |-> FinalValues(groupedValues)]

\* A buffer view the document does not hold: gltfData.bufferViews[i] is undefined.
UndefinedView == [undefined |-> TRUE, byteOffset |-> Undefined]

\* if (!componentType) return { error: `Unknown component type: ${...}` }
UnknownComponentType(acc) ==
    [returned |-> TRUE, error |-> NoError, read |-> Null,
     value |-> [error |-> <<"Unknown component type: ", acc.componentType>>]]

\* The rest of extractAccessorData, for a component type the table holds: it
\* throws a TypeError reading bufferView.byteOffset of an undefined buffer view
\* and a RangeError making a typed array over a byte length that is not a
\* multiple of the element size.
DecodeAccessor(acc, view, buf) ==
    IF view.undefined
    THEN [returned |-> FALSE, error |-> "TypeError", read |-> Null, value |-> Null]
    ELSE
        LET componentType == COMPONENT_TYPES[acc.componentType]
            typeSize == TypeSizeOf(acc.type)
            byteOffset == ByteOffsetOf(acc, view)
            byteLength == ByteLengthOf(acc, componentType)
            rawBytes == SubarrayRange(Len(buf), byteOffset, Plus(byteOffset, byteLength))
            bytes == BytesOf(buf, rawBytes)
        IN  IF Len(bytes) % componentType.size # 0
            THEN [returned |-> FALSE, error |-> "RangeError", read |-> rawBytes,
                  value |-> Null]
            ELSE [returned |-> TRUE, error |-> NoError, read |-> rawBytes,
                  value |-> ResultObject(acc, componentType,
                              GroupValues(TypedArrayValues(componentType, bytes), typeSize))]

\* A decoder that throws on an unknown component type instead of returning.
ExtractAccessorData_ThrowsOnUnknown(acc, view, buf) ==
    IF acc.componentType \notin DOMAIN COMPONENT_TYPES
    THEN [returned |-> FALSE, error |-> "Error", read |-> Null, value |-> Null]
    ELSE DecodeAccessor(acc, view, buf)

\* extractAccessorData(accessor, bufferView, binaryBuffer): what it returns or
\* throws, and the range of binaryBuffer it read (Null when it read nothing).
ExtractAccessorData(acc, view, buf) ==
    IF acc.componentType \notin DOMAIN COMPONENT_TYPES
    THEN UnknownComponentType(acc)
    ELSE DecodeAccessor(acc, view, buf)

(***************************************************************************)
(* Inputs of extractAccessorData: any component type code and shape tag,   *)
(* counts around the truncation limit, offsets present or absent, and a    *)
(* binary buffer ending a little before or after the accessor's window.    *)
(***************************************************************************)
ExtraCount == 1
MaxShort == 4
MaxExtra == 1

ComponentTypeCodes == DOMAIN COMPONENT_TYPES \cup {5124, 9999}

TypeTags == DOMAIN TYPE_SIZES \cup {"UNKNOWN"}

Counts == {0, 1, 2} \cup ((TRUNCATE_LIMIT - 1)..(TRUNCATE_LIMIT + ExtraCount))

MinMax == {[min |-> <<>>, max |-> <<>>], [min |-> <<0>>, max |-> <<1>>]}

Accessors ==
    {[componentType |-> c, type |-> t, count |-> n, byteOffset |-> o,
      min |-> b.min, max |-> b.max] :
        c \in ComponentTypeCodes, t \in TypeTags, n \in Counts,
        o \in {Undefined, 8}, b \in MinMax}

BufferViews == {[undefined |-> FALSE, byteOffset |-> o] : o \in {Undefined, 100}}

\* Byte i (from 0) of a generated binary buffer.
PatternByte(i) == (37 * i + 130) % 256

PatternBuffer(n) == [i \in 1..n |-> PatternByte(i - 1)]

\* Where the accessor's window ends when its type and shape are known.
NominalEnd(acc, view) ==
    LET size == IF acc.componentType \in DOMAIN COMPONENT_TYPES
                THEN COMPONENT_TYPES[acc.componentType].size ELSE 1
        typeSize == IF acc.type \in DOMAIN TYPE_SIZES THEN TYPE_SIZES[acc.type] ELSE 1
    IN  ByteOffsetOf(acc, view) + acc.count * size * typeSize

BufferLengths(acc, view) ==
    {0} \cup {Max(0, NominalEnd(acc, view) + d) : d \in (0 - MaxShort)..MaxExtra}

InitAccessor ==
    /\ accessor \in Accessors
    /\ bufferView \in BufferViews
    /\ \E n \in BufferLengths(accessor, bufferView) : binaryBuffer = PatternBuffer(n)
    /\ result = NoCall
    /\ pc = "extractAccessorData"
    /\ thrown = NoError
    /\ glbBuffer = <<>>
    /\ totalLength = Undefined /\ offset = Undefined
    /\ jsonChunkLength = Undefined /\ jsonChunkType = Undefined /\ jsonData = Null
    /\ binaryChunkLength = Undefined /\ binaryChunkType = Undefined /\ binaryRange = Null
    /\ gltfData = Null /\ primitive = Null /\ done = 0 /\ report = Null

\* One call of extractAccessorData on the accessor, its buffer view and the buffer.
CallExtractAccessorData ==
    /\ pc = "extractAccessorData"
    /\ LET out == ExtractAccessorData(accessor, bufferView, binaryBuffer)
       IN  /\ result' = out
           /\ pc' = IF out.returned THEN "returned" ELSE "thrown"
           /\ thrown' = out.error
    /\ UNCHANGED <<glbVars, binaryBuffer, accessor, bufferView, runVars>>

NextAccessor == CallExtractAccessorData

SpecAccessor == InitAccessor /\ [][NextAccessor]_vars

(***************************************************************************)
(* extractBinaryData: the walk over one primitive, which extracts every    *)
(* attribute in order and then the indices, if any.  The document holds    *)
(* the accessors and one buffer view; accessor.bufferView is an index      *)
(* (from 0) into bufferViews, undefined when the index is not held.        *)
(***************************************************************************)
MaxAccessors == 2
MaxRunBytes == 3

RunAccessors ==
    {[componentType |-> c, type |-> t, count |-> 1, byteOffset |-> Undefined,
      min |-> <<>>, max |-> <<>>, bufferView |-> v] :
        c \in {5121, 5123}, t \in {"SCALAR", "VEC2"}, v \in {0, 1}}
    \cup
    {[componentType |-> c, type |-> t, count |-> n, byteOffset |-> Undefined,
      min |-> <<>>, max |-> <<>>, bufferView |-> v] :
        c \in {5124, 9999}, t \in {"SCALAR", "UNKNOWN"}, n \in {1, TRUNCATE_LIMIT + 1},
        v \in {0, 1}}

\* gltfData.bufferViews[accessor.bufferView]
BufferViewOf(doc, acc) ==
    IF acc.bufferView + 1 \in DOMAIN doc.bufferViews
    THEN doc.bufferViews[acc.bufferView + 1]
    ELSE UndefinedView

InitRun ==
    /\ \E n \in 1..MaxAccessors : \E accs \in [1..n -> RunAccessors] :
          /\ gltfData = [accessors |-> accs,
                         bufferViews |-> <<[undefined |-> FALSE, byteOffset |-> 0]>>]
          /\ \/ primitive = [attributes |-> [k \in 1..n |-> k - 1], indices |-> Undefined]
             \/ primitive = [attributes |-> [k \in 1..(n - 1) |-> k - 1], indices |-> n - 1]
    /\ \E len \in 0..MaxRunBytes : binaryBuffer = PatternBuffer(len)
    /\ report = [attributes |-> <<>>, indices |-> <<>>]
    /\ done = 0
    /\ accessor = Null /\ bufferView = Null /\ result = NoCall
    /\ pc = "attributes"
    /\ thrown = NoError
    /\ glbBuffer = <<>>
    /\ totalLength = Undefined /\ offset = Undefined
    /\ jsonChunkLength = Undefined /\ jsonChunkType = Undefined /\ jsonData = Null
    /\ binaryChunkLength = Undefined /\ binaryChunkType = Undefined /\ binaryRange = Null

\* The call extractAccessorData(accessor, bufferView, binaryBuffer) made for
\* accessor index i: the arguments and the outcome are kept in accessor,
\* bufferView and result.
CallFor(i) ==
    /\ accessor' = gltfData.accessors[i + 1]
    /\ bufferView' = BufferViewOf(gltfData, accessor')
    /\ result' = ExtractAccessorData(accessor', bufferView', binaryBuffer)

RunFrame == UNCHANGED <<glbVars, binaryBuffer, gltfData, primitive>>

\* Object.entries(primitive.attributes).forEach(...): one attribute
ExtractAttribute ==
    /\ pc = "attributes"
    /\ done < Len(primitive.attributes)
    /\ CallFor(primitive.attributes[done + 1])
    /\ IF result'.returned
       THEN /\ report' = [report EXCEPT !.attributes = Append(@, result'.value)]
            /\ done' = done + 1
            /\ pc' = pc
            /\ thrown' = thrown
       ELSE /\ Throw(result'.error)
            /\ UNCHANGED <<report, done>>
    /\ RunFrame

\* if (primitive.indices !== undefined) { ... result.indices = data }
ExtractIndices ==
    /\ pc = "attributes"
    /\ done = Len(primitive.attributes)
    /\ primitive.indices # Undefined
    /\ CallFor(primitive.indices)
    /\ IF result'.returned
       THEN /\ report' = [report EXCEPT !.indices = <<result'.value>>]
            /\ pc' = "returned"
            /\ thrown' = thrown
       ELSE /\ Throw(result'.error)
            /\ UNCHANGED report
    /\ UNCHANGED done
    /\ RunFrame

\* the primitive has no indices
NoIndices ==
    /\ pc = "attributes"
    /\ done = Len(primitive.attributes)
    /\ primitive.indices = Undefined
    /\ pc' = "returned"
    /\ UNCHANGED <<thrown, accVars, report, done>>
    /\ RunFrame

NextRun ==
    \/ ExtractAttribute
    \/ ExtractIndices
    \/ NoIndices

SpecRun == InitRun /\ [][NextRun]_vars

(***************************************************************************)
(* What the input buffer itself says, read off its bytes without parseGLB. *)
(***************************************************************************)
HasBytes(n) == Len(glbBuffer) >= n

SignatureBytes == SubSeq(glbBuffer, 1, Min(4, Len(glbBuffer)))

DeclaredTotal == readUInt32LE(glbBuffer, 8)
DeclaredLen1 == readUInt32LE(glbBuffer, 12)
DeclaredTag1 == readUInt32LE(glbBuffer, 16)
DeclaredLen2 == readUInt32LE(glbBuffer, 20 + DeclaredLen1)
DeclaredTag2 == readUInt32LE(glbBuffer, 24 + DeclaredLen1)

\* A valid container: signature, a JSON chunk holding a JSON text, a BIN chunk,
\* a total length covering both and a buffer holding at least that many bytes.
ValidContainer ==
    /\ HasBytes(20)
    /\ SignatureBytes = MAGIC
    /\ DeclaredTag1 = JSON_CHUNK
    /\ HasBytes(28 + DeclaredLen1)
    /\ JsonParses(SubSeq(glbBuffer, 21, 20 + DeclaredLen1))
    /\ DeclaredTag2 = BIN_CHUNK
    /\ DeclaredTotal >= 28 + DeclaredLen1 + DeclaredLen2
    /\ HasBytes(DeclaredTotal)

Finished == pc \in {"returned", "thrown"}

RangeLength(range) == range[2] - range[1]

(***************************************************************************)
(* C1 (stated as claimed; the code violates it): a parse that returns      *)
(* never returns a metadata range or a binary range shorter than the chunk *)
(* length its header declares, a read past the end of the buffer making    *)
(* the parse fail instead.  The RangeError of readUInt32LE is taken to be  *)
(* that failure, so only the silently shortened data ranges count here.    *)
(***************************************************************************)
C1_NoShortRangeReturned ==
    pc = "returned" =>
        /\ RangeLength(jsonData) = jsonChunkLength
        /\ binaryRange # Null => RangeLength(binaryRange) = binaryChunkLength

(***************************************************************************)
(* C2 (stated as claimed; the code violates it): every buffer whose first  *)
(* 4 bytes are not 'glTF', whatever its length, fails with the invalid     *)
(* signature error and with no other error, and nothing is returned.       *)
(***************************************************************************)
C2_BadSignatureAlwaysRejected ==
    SignatureBytes # MAGIC =>
        \/ pc = "magic"
        \/ pc = "thrown" /\ thrown = "InvalidSignature"

(***************************************************************************)
(* C3: for every valid container parseGLB returns, the metadata range      *)
(* being exactly [20, 20 + len1) and the binary range exactly              *)
(* [28 + len1, 28 + len1 + len2), of the declared length len2.             *)
(***************************************************************************)
C3_ValidContainerRanges ==
    (ValidContainer /\ Finished) =>
        /\ pc = "returned"
        /\ jsonData = <<20, 20 + DeclaredLen1>>
        /\ binaryRange = <<28 + DeclaredLen1, 28 + DeclaredLen1 + DeclaredLen2>>
        /\ RangeLength(binaryRange) = DeclaredLen2

C3_Witness ==
    /\ ValidContainer
    /\ pc = "returned"
    /\ DeclaredLen1 > 0
    /\ DeclaredLen2 > 0
    /\ binaryRange # Null

(***************************************************************************)
(* C8 (stated as claimed; the code violates it): with a valid signature, a *)
(* declared total length that differs from the length of the chunk table   *)
(* the buffer encodes makes parseGLB fail before any chunk header or chunk *)
(* data is read.                                                           *)
(***************************************************************************)
ChunkTableLengths ==
    {20 + DeclaredLen1}
        \cup (IF HasBytes(28 + DeclaredLen1)
              THEN {28 + DeclaredLen1 + DeclaredLen2} ELSE {})

C8_InconsistentTotalFailsEarly ==
    (HasBytes(20) /\ SignatureBytes = MAGIC /\ DeclaredTotal \notin ChunkTableLengths) =>
        /\ pc \in {"magic", "totalLength", "thrown"}
        /\ jsonChunkLength = Undefined
        /\ jsonData = Null

(***************************************************************************)
(* C9: after the metadata chunk the cursor is 12 + 8 + len1; the second    *)
(* chunk header is read if and only if the cursor is strictly before the   *)
(* declared total length, and a binary range is produced if and only if    *)
(* that header was read and its tag is BIN\0.  With the cursor at or past  *)
(* the total length, or any other second tag, parseGLB returns with no     *)
(* binary range; a first chunk whose tag is not JSON always fails.         *)
(***************************************************************************)
C9_SecondChunkRule ==
    /\ pc \in {"binaryChunk", "binaryData", "returned"} =>
          /\ offset = 12 + 8 + DeclaredLen1
          /\ DeclaredTag1 = JSON_CHUNK
    /\ pc = "binaryData" =>
          /\ offset < DeclaredTotal
          /\ binaryChunkType = DeclaredTag2
    /\ pc = "returned" =>
          /\ (binaryChunkType # Undefined) <=> (20 + DeclaredLen1 < DeclaredTotal)
          /\ (binaryRange # Null) <=>
                (20 + DeclaredLen1 < DeclaredTotal /\ DeclaredTag2 = BIN_CHUNK)
    \* past the metadata chunk the only failure is a second header, due because the
    \* cursor is before the total length, that the buffer does not hold
    /\ (pc = "thrown" /\ jsonData # Null /\ thrown # "SyntaxError") =>
          /\ 20 + DeclaredLen1 < DeclaredTotal
          /\ ~HasBytes(28 + DeclaredLen1)
          /\ thrown = "RangeError"
    /\ (Finished /\ HasBytes(20) /\ DeclaredTag1 # JSON_CHUNK) => pc = "thrown"

C9_Witness ==
    /\ pc = "returned"
    /\ binaryChunkType # Undefined
    /\ binaryChunkType # BIN_CHUNK
    /\ binaryRange = Null

(***************************************************************************)
(* What a call of extractAccessorData was given, computed from the         *)
(* accessor, the buffer view and the buffer without the decoder.           *)
(***************************************************************************)
Called == result.error # "no call"

Recognized == accessor.componentType \in {5120, 5121, 5122, 5123, 5125, 5126}

ComponentsPerElement ==
    [SCALAR |-> 1, VEC2 |-> 2, VEC3 |-> 3, VEC4 |-> 4, MAT2 |-> 4, MAT3 |-> 9, MAT4 |-> 16]

KnownShape == accessor.type \in DOMAIN ComponentsPerElement

ComponentByteSize ==
    CASE accessor.componentType \in {5120, 5121} -> 1
      [] accessor.componentType \in {5122, 5123} -> 2
      [] accessor.componentType \in {5125, 5126} -> 4

ArrayKind == COMPONENT_TYPES[accessor.componentType].array

WindowStart ==
    (IF bufferView.byteOffset = Undefined THEN 0 ELSE bufferView.byteOffset)
        + (IF accessor.byteOffset = Undefined THEN 0 ELSE accessor.byteOffset)

WindowEnd ==
    WindowStart + accessor.count * ComponentByteSize * ComponentsPerElement[accessor.type]

WindowInBuffer == WindowEnd <= Len(binaryBuffer)

HasValues == "values" \in DOMAIN result.value
HasTruncatedValues == "truncatedValues" \in DOMAIN result.value

\* The groups the result carries, under either field name.
ResultGroups == IF HasValues THEN result.value.values ELSE result.value.truncatedValues

\* How many numbers and groups the bytes that were read hold.
DecodedValues == RangeLength(result.read) \div ComponentByteSize

DecodedGroups ==
    IF KnownShape
    THEN (DecodedValues + ComponentsPerElement[accessor.type] - 1)
            \div ComponentsPerElement[accessor.type]
    ELSE 0

\* Component j of group g, decoded straight from the binary buffer.
ComponentAt(g, j) ==
    LET at == WindowStart
                + ((g - 1) * ComponentsPerElement[accessor.type] + (j - 1)) * ComponentByteSize
    IN  DecodeElement(ArrayKind, SubSeq(binaryBuffer, at + 1, at + ComponentByteSize))

\* The result carries exactly one of values and truncatedValues, the latter
\* exactly when more than 20 groups were decoded, holding the first 20 in order.
TruncationRule ==
    /\ HasValues # HasTruncatedValues
    /\ HasTruncatedValues <=> DecodedGroups > 20
    /\ Len(ResultGroups) = Min(DecodedGroups, 20)
    /\ KnownShape =>
          \A g \in 1..Len(ResultGroups) : \A j \in 1..Len(ResultGroups[g].items) :
             ResultGroups[g].items[j] = ComponentAt(g, j)

(***************************************************************************)
(* C4 (stated as claimed; refuted): every call with a recognized component *)
(* type carries exactly one of values and truncatedValues, truncatedValues *)
(* exactly when more than 20 groups were decoded and then the first 20 in  *)
(* order; with count = 20 it carries values of length 20, with count = 21  *)
(* truncatedValues of length 20.                                           *)
(***************************************************************************)
C4_TruncationAsClaimed ==
    (Called /\ Recognized /\ result.returned) =>
        /\ TruncationRule
        /\ accessor.count = 20 =>
              HasValues /\ ~HasTruncatedValues /\ Len(result.value.values) = 20
        /\ accessor.count = 21 =>
              HasTruncatedValues /\ ~HasValues /\ Len(result.value.truncatedValues) = 20

(***************************************************************************)
(* C4 (amended): as claimed, the two statements about count = 20 and       *)
(* count = 21 holding for a recognized shape whose byte window lies inside *)
(* the binary buffer.                                                      *)
(***************************************************************************)
C4_Truncation ==
    (Called /\ Recognized /\ result.returned) =>
        /\ TruncationRule
        /\ (KnownShape /\ WindowInBuffer /\ accessor.count = 20) =>
              HasValues /\ ~HasTruncatedValues /\ Len(result.value.values) = 20
        /\ (KnownShape /\ WindowInBuffer /\ accessor.count = 21) =>
              HasTruncatedValues /\ ~HasValues /\ Len(result.value.truncatedValues) = 20

C4_Witness ==
    /\ Called /\ Recognized /\ result.returned
    /\ accessor.type = "VEC3"
    /\ accessor.count = 21
    /\ HasTruncatedValues
    /\ Len(result.value.truncatedValues) = 20

\* Every group is an array of exactly n numbers (n > 1), or a bare number (n = 1).
GroupsShaped(n) ==
    \A g \in 1..Len(ResultGroups) :
        /\ ResultGroups[g].array <=> n # 1
        /\ Len(ResultGroups[g].items) = n

(***************************************************************************)
(* C5 (stated as claimed; refuted): for each of the 42 supported pairs and *)
(* every declared count N the result holds exactly min(N, 20) groups, each *)
(* of exactly componentsPerElement values (2, 3, 4, 4, 9, 16), scalar      *)
(* shapes emitting bare numbers.                                           *)
(***************************************************************************)
C5_GroupsAsClaimed ==
    (Called /\ Recognized /\ KnownShape /\ result.returned) =>
        /\ Len(ResultGroups) = Min(accessor.count, 20)
        /\ GroupsShaped(ComponentsPerElement[accessor.type])

(***************************************************************************)
(* C5 (amended): as claimed, for every declared count N whose byte window  *)
(* lies inside the binary buffer; the call then returns.                   *)
(***************************************************************************)
C5_Groups ==
    (Called /\ Recognized /\ KnownShape /\ WindowInBuffer) =>
        /\ result.returned
        /\ Len(ResultGroups) = Min(accessor.count, 20)
        /\ GroupsShaped(ComponentsPerElement[accessor.type])

C5_Witness ==
    /\ Called /\ Recognized /\ WindowInBuffer /\ result.returned
    /\ accessor.type = "MAT3"
    /\ accessor.componentType = 5122
    /\ accessor.count = 21
    /\ Len(ResultGroups) = 20

\* The buffer with every byte outside the range [lo, hi) changed.
AlteredOutside(buf, lo, hi, delta) ==
    [i \in 1..Len(buf) |-> IF lo < i /\ i <= hi THEN buf[i] ELSE (buf[i] + delta) % 256]

(***************************************************************************)
(* C7: for a recognized component type and shape the bytes decoded are     *)
(* exactly the window [o, o + count * size * components) of the binary     *)
(* buffer, o the sum of the two byte offsets (0 when absent), cut at the   *)
(* end of the buffer when it ends earlier; every number of the result is   *)
(* the one at its place in that window, and changing every byte outside    *)
(* the window changes nothing.  With offsets 100 and 8, a scalar float32   *)
(* accessor of count 1 reads exactly [108, 112).                           *)
(***************************************************************************)
C7_ByteWindow ==
    (Called /\ Recognized /\ KnownShape) =>
        /\ result.read = <<Min(WindowStart, Len(binaryBuffer)),
                           Min(WindowEnd, Len(binaryBuffer))>>
        /\ WindowInBuffer => result.returned /\ result.read = <<WindowStart, WindowEnd>>
        /\ result.returned =>
              \A g \in 1..Len(ResultGroups) : \A j \in 1..Len(ResultGroups[g].items) :
                 ResultGroups[g].items[j] = ComponentAt(g, j)
        /\ \A delta \in {1, 128} :
              ExtractAccessorData(accessor, bufferView,
                  AlteredOutside(binaryBuffer, WindowStart, WindowEnd, delta)) = result
        /\ (/\ bufferView.byteOffset = 100 /\ accessor.byteOffset = 8
            /\ accessor.componentType = 5126 /\ accessor.type = "SCALAR"
            /\ accessor.count = 1 /\ Len(binaryBuffer) >= 112) =>
              result.read = <<108, 112>>

C7_Witness ==
    /\ Called /\ result.returned
    /\ bufferView.byteOffset = 100 /\ accessor.byteOffset = 8
    /\ accessor.componentType = 5126 /\ accessor.type = "SCALAR" /\ accessor.count = 1
    /\ Len(binaryBuffer) > 112
    /\ result.read = <<108, 112>>
    /\ Len(result.value.values) = 1

(***************************************************************************)
(* C10 (stated as claimed; the code violates it): when the byte window of  *)
(* an accessor of recognized component type and shape runs past the end of *)
(* the binary buffer, the call does not fail: it returns a normal result   *)
(* decoded from the bytes that exist, however many remain.                 *)
(***************************************************************************)
C10_ShortWindowReturns ==
    (Called /\ Recognized /\ KnownShape /\ ~WindowInBuffer) =>
        /\ result.returned
        /\ result.read[2] <= Len(binaryBuffer)
        /\ HasValues # HasTruncatedValues
        /\ {"type", "componentType", "count", "min", "max"} \subseteq DOMAIN result.value
        /\ Len(ResultGroups) <= accessor.count

\* The accessor and the buffer view of the call made for accessor index i.
AccessorAt(i) == gltfData.accessors[i + 1]

UnknownType(acc) == acc.componentType \notin {5120, 5121, 5122, 5123, 5125, 5126}

\* What the report must hold for accessor index i.
EntryFor(i) ==
    IF UnknownType(AccessorAt(i))
    THEN [error |-> <<"Unknown component type: ", AccessorAt(i).componentType>>]
    ELSE DecodeAccessor(AccessorAt(i), BufferViewOf(gltfData, AccessorAt(i)),
                        binaryBuffer).value

(***************************************************************************)
(* C6: a call for an accessor whose component type code is none of 5120,   *)
(* 5121, 5122, 5123, 5125, 5126 returns a result whose only field is       *)
(* error, holding that code; it reads no byte of the binary buffer and     *)
(* does not throw, whatever the shape, count and buffer view, so the walk  *)
(* goes on: every attribute before and after it, and the indices, are in   *)
(* the report, and a walk that stops has stopped at a recognized type.     *)
(***************************************************************************)
C6_UnknownComponentType ==
    /\ (Called /\ UnknownType(accessor)) =>
          /\ result.returned
          /\ result.read = Null
          /\ DOMAIN result.value = {"error"}
          /\ result.value.error = <<"Unknown component type: ", accessor.componentType>>
          /\ pc # "thrown"
    /\ pc = "thrown" => ~UnknownType(accessor)
    /\ Len(report.attributes) = done
    /\ \A k \in 1..done : report.attributes[k] = EntryFor(primitive.attributes[k])
    /\ pc = "returned" =>
          /\ done = Len(primitive.attributes)
          /\ primitive.indices # Undefined =>
                report.indices = <<EntryFor(primitive.indices)>>

C6_Witness ==
    /\ pc = "returned"
    /\ done = 2
    /\ UnknownType(AccessorAt(primitive.attributes[1]))
    /\ AccessorAt(primitive.attributes[1]).bufferView = 1
    /\ ~UnknownType(AccessorAt(primitive.attributes[2]))
    /\ DOMAIN report.attributes[1] = {"error"}
    /\ "values" \in DOMAIN report.attributes[2]
    /\ Len(report.attributes[2].values) = 1

=============================================================================
